---------------------------- MODULE Spec2Model ----------------------------
(***************************************************************************)
(* A model of fl_dstar: statistical fault localisation with the DStar      *)
(* metric over gcov line-coverage reports (src/src/lib.rs, src/src/main.rs)*)
(*                                                                         *)
(* Text is modelled as a sequence of one-character strings, so that        *)
(* splitting, trimming and re-joining are computed character by character  *)
(* as the code computes them.  A file is the sequence of lines that        *)
(* BufRead::lines yields.  f32 values are modelled bit-exactly for the     *)
(* values the bounded counts can produce (see F32Div).                     *)
(***************************************************************************)
EXTENDS Integers, Sequences, FiniteSets

VARIABLES
    passing_files,        \* main: the passing directory, a sequence of files
    failing_files,        \* main: the failing directory, a sequence of files
    passing_files_info,   \* main: Vec<Vec<LineInfo>> of the passing reports
    failing_files_info,   \* main: Vec<Vec<LineInfo>> of the failing reports
    statement_info_list,  \* main: Vec<StatementInfo>
    np,                   \* main: number of passing reports folded so far
    nf,                   \* main: number of failing reports folded so far
    folded,               \* the reports folded so far, when folded in any order
    output,               \* rows handed to the csv writer, in order
    pc,                   \* position of the run
    panicked,             \* "none", or the panic that aborted the run
    arg,                  \* the argument of a function applied on its own
    ret                   \* its result

vars == <<passing_files, failing_files, passing_files_info, failing_files_info,
          statement_info_list, np, nf, folded, output, pc, panicked, arg, ret>>

mainVars == <<passing_files, failing_files, passing_files_info,
              failing_files_info, statement_info_list, np, nf, folded, output,
              panicked>>

-----------------------------------------------------------------------------
(* Bounds of the model *)

\* longest statement text of a single parsed line
MaxTextLen == 4
\* most executable lines in a coverage report
MaxLines == 2
\* most reports (passing and failing together) in one run
MaxReports == 3
\* largest count given to a single scored entry
MaxCount == 4
\* most lines in a raw report file parsed on its own
MaxFileLines == 3
\* most entries in a table ranked on its own
MaxTable == 3

-----------------------------------------------------------------------------
(* Text *)

Range(s) == {s[k] : k \in 1..Len(s)}

\* char::is_whitespace, restricted to the characters of the model
IsWhitespace(c) == c \in {" ", "\t"}

Digits == <<"0", "1", "2", "3", "4", "5", "6", "7", "8", "9">>

IsDigit(c) == \E d \in 1..10 : Digits[d] = c

DigitValue(c) == (CHOOSE d \in 1..10 : Digits[d] = c) - 1

RECURSIVE TrimStart(_)
\* str::trim_start
TrimStart(s) ==
    IF s # <<>> /\ IsWhitespace(Head(s)) THEN TrimStart(Tail(s)) ELSE s

RECURSIVE TrimEnd(_)
\* str::trim_end
TrimEnd(s) ==
    IF s # <<>> /\ IsWhitespace(s[Len(s)])
    THEN TrimEnd(SubSeq(s, 1, Len(s) - 1))
    ELSE s

\* str::trim
Trim(s) == TrimEnd(TrimStart(s))

RECURSIVE SplitFrom(_, _, _)
\* str::split(sep), collected: the fields between separators, at least one
SplitFrom(s, sep, field) ==
    IF s = <<>> THEN <<field>>
    ELSE IF Head(s) = sep
         THEN <<field>> \o SplitFrom(Tail(s), sep, <<>>)
         ELSE SplitFrom(Tail(s), sep, Append(field, Head(s)))

Split(s, sep) == SplitFrom(s, sep, <<>>)

RECURSIVE DecimalValue(_, _)
DecimalValue(s, acc) ==
    IF s = <<>> THEN acc
    ELSE DecimalValue(Tail(s), 10 * acc + DigitValue(Head(s)))

\* str::parse::<u32>: an optional '+', then one or more decimal digits and
\* nothing else.  The digit strings of the model are at most two digits long,
\* far from the overflow error at 2^32.
ParseU32(s) ==
    LET digits == IF s # <<>> /\ Head(s) = "+" THEN Tail(s) ELSE s
    IN  IF digits # <<>> /\ \A k \in 1..Len(digits) : IsDigit(digits[k])
        THEN [ok |-> TRUE, value |-> DecimalValue(digits, 0)]
        ELSE [ok |-> FALSE, value |-> 0]

-----------------------------------------------------------------------------
(* Coverage, LineInfo and the parser *)

Covered == "Covered"
NotCovered == "NotCovered"
NoExecutableCode == "NoExecutableCode"

LineInfo(line_number, statement, coverage) ==
    [line_number |-> line_number, statement |-> statement, coverage |-> coverage]

NoLineInfo == LineInfo(0, <<>>, NoExecutableCode)

RECURSIVE JoinRest(_, _)
\* the loop of parse_gcov_line over fields 2.. (0-based), i the 0-based index
JoinRest(fields, i) ==
    IF i >= Len(fields) THEN <<>>
    ELSE (IF i = 2 THEN TrimStart(fields[i + 1])
                   ELSE <<":">> \o fields[i + 1])
         \o JoinRest(fields, i + 1)

\* parse_gcov_line with the statement cut at the first colon of the text
parse_gcov_line_truncating(line) ==
    LET fields == Split(line, ":")
        coverage_str == Trim(fields[1])
        coverage == IF coverage_str = <<"-">> THEN NoExecutableCode
                    ELSE IF coverage_str = <<"#", "#", "#", "#", "#">> THEN NotCovered
                    ELSE Covered
    IN  IF Len(fields) < 2
        THEN [panic |-> "index out of bounds", line_info |-> NoLineInfo]
        ELSE LET line_number == ParseU32(Trim(fields[2]))
             IN  IF ~line_number.ok
                 THEN [panic |-> "unwrap on Err", line_info |-> NoLineInfo]
                 ELSE [panic |-> "none",
                       line_info |->
                           LineInfo(line_number.value,
                                    IF Len(fields) >= 3 THEN TrimStart(fields[3])
                                                        ELSE <<>>,
                                    coverage)]

\* parse_gcov_line with unwrap_or(0) in place of unwrap
parse_gcov_line_lenient(line) ==
    LET fields == Split(line, ":")
        coverage_str == Trim(fields[1])
        coverage == IF coverage_str = <<"-">> THEN NoExecutableCode
                    ELSE IF coverage_str = <<"#", "#", "#", "#", "#">> THEN NotCovered
                    ELSE Covered
    IN  IF Len(fields) < 2
        THEN [panic |-> "index out of bounds", line_info |-> NoLineInfo]
        ELSE LET line_number == ParseU32(Trim(fields[2]))
             IN  [panic |-> "none",
                  line_info |-> LineInfo(line_number.value,
                                         JoinRest(fields, 2), coverage)]

\* parse_gcov_line: panics when the line has no second field or when the
\* second field, trimmed, is not a u32
parse_gcov_line(line) ==
    LET fields == Split(line, ":")
        coverage_str == Trim(fields[1])
        coverage == IF coverage_str = <<"-">> THEN NoExecutableCode
                    ELSE IF coverage_str = <<"#", "#", "#", "#", "#">> THEN NotCovered
                    ELSE Covered
    IN  IF Len(fields) < 2
        THEN [panic |-> "index out of bounds", line_info |-> NoLineInfo]
        ELSE LET line_number == ParseU32(Trim(fields[2]))
             IN  IF ~line_number.ok
                 THEN [panic |-> "unwrap on Err", line_info |-> NoLineInfo]
                 ELSE [panic |-> "none",
                       line_info |-> LineInfo(line_number.value,
                                              JoinRest(fields, 2), coverage)]

RECURSIVE ParseLoop(_, _)
\* the loop of parse_gcov_file over the lines read, lines the Vec so far
ParseLoop(rest, lines) ==
    IF rest = <<>> THEN [panic |-> "none", lines |-> lines]
    ELSE IF Head(rest) = <<>> THEN ParseLoop(Tail(rest), lines)
    ELSE LET r == parse_gcov_line(Head(rest))
         IN  IF r.panic # "none" THEN [panic |-> r.panic, lines |-> <<>>]
             ELSE IF r.line_info.coverage = NoExecutableCode
                  THEN ParseLoop(Tail(rest), lines)
             ELSE IF r.line_info.line_number = 0
                  THEN ParseLoop(Tail(rest), lines)
             ELSE ParseLoop(Tail(rest), Append(lines, r.line_info))

RECURSIVE ParseLoopKeepZero(_, _)
ParseLoopKeepZero(rest, lines) ==
    IF rest = <<>> THEN [panic |-> "none", lines |-> lines]
    ELSE IF Head(rest) = <<>> THEN ParseLoopKeepZero(Tail(rest), lines)
    ELSE LET r == parse_gcov_line(Head(rest))
         IN  IF r.panic # "none" THEN [panic |-> r.panic, lines |-> <<>>]
             ELSE IF r.line_info.coverage = NoExecutableCode
                  THEN ParseLoopKeepZero(Tail(rest), lines)
             ELSE ParseLoopKeepZero(Tail(rest), Append(lines, r.line_info))

\* parse_gcov_file without the test of line number 0
parse_gcov_file_keep_zero(file) == ParseLoopKeepZero(file, <<>>)

\* parse_gcov_file, applied to the lines of the file
parse_gcov_file(file) == ParseLoop(file, <<>>)

-----------------------------------------------------------------------------
(* f32 *)

(***************************************************************************)
(* An f32 is "nan", "inf" (with a sign) or "fin": sign * m / 2^k, where m  *)
(* is the 24-bit significand, 2^23 <= m < 2^24, or m = 0 and k = 0 for a   *)
(* zero.  The casts `as f32` of the counts, the product failed * failed    *)
(* and the sum and difference of line 61 are exact below 2^24, which the   *)
(* counts of the model stay far below, so those are integers here; the     *)
(* division rounds to nearest, ties to even.                               *)
(***************************************************************************)
\* 2^23, the least 24-bit significand
F32HiddenBit == 8388608

RECURSIVE Pow2(_)
Pow2(n) == IF n = 0 THEN 1 ELSE 2 * Pow2(n - 1)

F32Nan == [kind |-> "nan", sign |-> 1, m |-> 0, k |-> 0]
F32Inf(sign) == [kind |-> "inf", sign |-> sign, m |-> 0, k |-> 0]
F32Fin(sign, m, k) == [kind |-> "fin", sign |-> sign, m |-> m, k |-> k]
F32Zero == F32Fin(1, 0, 0)

RECURSIVE F32Quotient(_, _, _, _)
\* long division of a positive quotient: q = floor(n * 2^k / d) with
\* remainder r, carried on until q has 24 bits, then rounded
F32Quotient(q, r, d, k) ==
    IF q < F32HiddenBit
    THEN IF 2 * r >= d
         THEN F32Quotient(2 * q + 1, 2 * r - d, d, k + 1)
         ELSE F32Quotient(2 * q, 2 * r, d, k + 1)
    ELSE LET up == 2 * r > d \/ (2 * r = d /\ q % 2 = 1)
             m == IF up THEN q + 1 ELSE q
         IN  IF m = 2 * F32HiddenBit
             THEN [m |-> F32HiddenBit, k |-> k - 1]
             ELSE [m |-> m, k |-> k]

\* the f32 division n / d of two integer-valued f32s, n >= 0, where a zero
\* d is +0.0 (it comes from x - x)
F32Div(n, d) ==
    IF d = 0 THEN (IF n = 0 THEN F32Nan ELSE F32Inf(1))
    ELSE LET sign == IF d < 0 THEN -1 ELSE 1
             ad == IF d < 0 THEN -d ELSE d
         IN  IF n = 0 THEN F32Fin(sign, 0, 0)
             ELSE LET mk == F32Quotient(n \div ad, n % ad, ad, 0)
                  IN  F32Fin(sign, mk.m, mk.k)

\* a < b for two f32s that are not NaN
F32Less(a, b) ==
    LET cls(x) == IF x.kind = "inf" THEN 2 * x.sign
                  ELSE IF x.m = 0 THEN 0 ELSE x.sign
        magLess(x, y) == x.k > y.k \/ (x.k = y.k /\ x.m < y.m)
    IN  IF cls(a) # cls(b) THEN cls(a) < cls(b)
        ELSE IF cls(a) = 1 THEN magLess(a, b)
        ELSE IF cls(a) = -1 THEN magLess(b, a)
        ELSE FALSE

\* f32::partial_cmp: None when either side is NaN
partial_cmp(a, b) ==
    IF a.kind = "nan" \/ b.kind = "nan" THEN "None"
    ELSE IF F32Less(a, b) THEN "Less"
    ELSE IF F32Less(b, a) THEN "Greater"
    ELSE "Equal"

\* u32::cmp
cmp(a, b) == IF a < b THEN "Less" ELSE IF a > b THEN "Greater" ELSE "Equal"

-----------------------------------------------------------------------------
(* StatementInfo *)

\* StatementInfo::new
new(line_number, statement, total_failed) ==
    [line_number |-> line_number, statement |-> statement,
     failed_tests |-> 0, passed_tests |-> 0, total_failed |-> total_failed,
     suspiciousness |-> F32Zero]

\* StatementInfo::add_passing_coverage
add_passing_coverage(self) ==
    [self EXCEPT !.passed_tests = self.passed_tests + 1]

\* add_failing_coverage counting in the other field
add_failing_coverage_wrong_field(self) ==
    [self EXCEPT !.passed_tests = self.passed_tests + 1]

\* StatementInfo::add_failing_coverage
add_failing_coverage(self) ==
    [self EXCEPT !.failed_tests = self.failed_tests + 1]

\* calculate_suspiciousness with a zero denominator clamped to a score of 0
calculate_suspiciousness_clamped(self) ==
    LET failed_tests == self.failed_tests
        passed_tests == self.passed_tests
        total_failed == self.total_failed
        denominator == passed_tests + total_failed - failed_tests
        suspiciousness ==
            IF denominator = 0 THEN F32Zero
            ELSE F32Div(failed_tests * failed_tests, denominator)
    IN  [self EXCEPT !.suspiciousness = suspiciousness]

\* StatementInfo::calculate_suspiciousness
calculate_suspiciousness(self) ==
    LET failed_tests == self.failed_tests
        passed_tests == self.passed_tests
        total_failed == self.total_failed
        suspiciousness ==
            F32Div(failed_tests * failed_tests,
                   passed_tests + total_failed - failed_tests)
    IN  [self EXCEPT !.suspiciousness = suspiciousness]

\* add_test_to_statements with the lengths compared after the loop, which
\* runs over the positions both vectors have
add_test_to_statements_late_assert(statements, tests, is_passing) ==
    LET counted ==
            [i \in 1..Len(statements) |->
                IF i <= Len(tests) /\ tests[i].coverage = Covered
                THEN IF is_passing
                     THEN add_passing_coverage(statements[i])
                     ELSE add_failing_coverage(statements[i])
                ELSE statements[i]]
    IN  IF Len(statements) # Len(tests)
        THEN [panic |-> "assert_eq", statements |-> counted]
        ELSE [panic |-> "none", statements |-> counted]

\* add_test_to_statements with the counter of a line the report does not
\* cover set back to 0
add_test_to_statements_resetting(statements, tests, is_passing) ==
    IF Len(statements) # Len(tests)
    THEN [panic |-> "assert_eq", statements |-> statements]
    ELSE [panic |-> "none",
          statements |->
              [i \in 1..Len(statements) |->
                  IF tests[i].coverage = Covered
                  THEN IF is_passing
                       THEN add_passing_coverage(statements[i])
                       ELSE add_failing_coverage(statements[i])
                  ELSE IF is_passing
                       THEN [statements[i] EXCEPT !.passed_tests = 0]
                       ELSE [statements[i] EXCEPT !.failed_tests = 0]]]

\* add_test_to_statements: the assert_eq! on the lengths, then the loop
add_test_to_statements(statements, tests, is_passing) ==
    IF Len(statements) # Len(tests)
    THEN [panic |-> "assert_eq", statements |-> statements]
    ELSE [panic |-> "none",
          statements |->
              [i \in 1..Len(statements) |->
                  IF tests[i].coverage = Covered
                  THEN IF is_passing
                       THEN add_passing_coverage(statements[i])
                       ELSE add_failing_coverage(statements[i])
                  ELSE statements[i]]]

-----------------------------------------------------------------------------
(* Ranking *)

\* the comparator without the tie-break on line_number
SortCmpNoTieBreak(a, b) ==
    LET sus_res == partial_cmp(b.suspiciousness, a.suspiciousness)
    IN  IF sus_res = "None" THEN "panic" ELSE sus_res

\* the comparator closure handed to sort_by in main; "panic" is the unwrap
\* of partial_cmp's None
SortCmp(a, b) ==
    LET sus_res == partial_cmp(b.suspiciousness, a.suspiciousness)
    IN  IF sus_res = "None" THEN "panic"
        ELSE IF sus_res = "Equal" THEN cmp(a.line_number, b.line_number)
        ELSE sus_res

RECURSIVE InsertSorted(_, _)
\* e placed behind every element of the sorted s that does not compare
\* Greater than it: a stable insertion
InsertSorted(e, s) ==
    IF s = <<>> THEN <<e>>
    ELSE IF SortCmp(Head(s), e) = "Greater" THEN <<e>> \o s
    ELSE <<Head(s)>> \o InsertSorted(e, Tail(s))

RECURSIVE StableSort(_)
StableSort(s) ==
    IF s = <<>> THEN <<>>
    ELSE InsertSorted(s[Len(s)], StableSort(SubSeq(s, 1, Len(s) - 1)))

\* statement_info_list.sort_by(..): a stable sort.  A slice of fewer than
\* two elements is never compared; in a longer one every element is
\* compared at least once, so a NaN anywhere reaches the unwrap.
sort_by(list) ==
    IF Len(list) >= 2
       /\ \E i, j \in 1..Len(list) : i # j /\ SortCmp(list[i], list[j]) = "panic"
    THEN [panic |-> "unwrap on None", list |-> list]
    ELSE [panic |-> "none", list |-> StableSort(list)]

-----------------------------------------------------------------------------
(* Inputs of a run *)

SeqsUpTo(S, n) == UNION {[1..k -> S] : k \in 0..n}

\* "-:0:S:t", the shape of gcov's "-:    0:Source:tcas4.c"
HeaderLine == <<"-", ":", "0", ":", "S", ":", "t">>

CoveredMarker == <<"2">>
NotCoveredMarker == <<"#", "#", "#", "#", "#">>

\* the report line of source line k, executed or not
CoverageLine(k, executed) ==
    (IF executed THEN CoveredMarker ELSE NotCoveredMarker)
    \o <<":", Digits[k + 1], ":", " ", "s">>

\* a report of a build with Len(v) executable lines, v[k] telling whether
\* line k was executed
GcovReport(v) == <<HeaderLine>> \o [k \in 1..Len(v) |-> CoverageLine(k, v[k])]

\* a report whose line-number field is not a number
BadReport == <<HeaderLine, <<"2", ":", "x", ":", "s">>>>

GoodReports(n) == {GcovReport(v) : v \in [1..n -> BOOLEAN]}

\* a report of another build: one executable line fewer (one more, when
\* there is none to lose).  As the first passing report it makes the
\* reports of this build the longer ones.
MisalignedReports(n) ==
    {GcovReport([k \in 1..(IF n = 0 THEN 1 ELSE n - 1) |-> TRUE])}

\* what a directory may hold when the build under test has n executable
\* lines
ReportFiles(n) == GoodReports(n) \cup MisalignedReports(n) \cup {BadReport}

-----------------------------------------------------------------------------
(* main *)

RECURSIVE ParseEach(_, _)
\* files.iter().map(parse_gcov_file).collect(): the reports in the order
\* of the files, or the first panic met
ParseEach(files, info) ==
    IF files = <<>> THEN [panic |-> "none", info |-> info]
    ELSE LET r == parse_gcov_file(Head(files))
         IN  IF r.panic # "none" THEN [panic |-> r.panic, info |-> <<>>]
             ELSE ParseEach(Tail(files), Append(info, r.lines))

ParseAll(files) == ParseEach(files, <<>>)

RECURSIVE BuildLoop(_, _, _)
\* the loop of main that makes the statement list from the first passing
\* report
BuildLoop(rest, total_failed, list) ==
    IF rest = <<>> THEN list
    ELSE LET line == Head(rest)
             statement_info == new(line.line_number, line.statement, total_failed)
         IN  IF line.coverage = NoExecutableCode
             THEN BuildLoop(Tail(rest), total_failed, list)
             ELSE BuildLoop(Tail(rest), total_failed, Append(list, statement_info))

Abort(reason) ==
    /\ pc' = "panicked"
    /\ panicked' = reason

Init ==
    /\ \E n \in 0..MaxLines :
          /\ passing_files \in SeqsUpTo(ReportFiles(n), MaxReports)
          /\ failing_files \in
                 SeqsUpTo(ReportFiles(n), MaxReports - Len(passing_files))
    /\ passing_files_info = <<>>
    /\ failing_files_info = <<>>
    /\ statement_info_list = <<>>
    /\ np = 0
    /\ nf = 0
    /\ folded = <<>>
    /\ output = <<>>
    /\ pc = "parse_passing"
    /\ panicked = "none"
    /\ arg = <<>>
    /\ ret = <<>>

\* main.rs 40-43
ParsePassing ==
    /\ pc = "parse_passing"
    /\ LET r == ParseAll(passing_files)
       IN  IF r.panic # "none"
           THEN Abort(r.panic) /\ UNCHANGED passing_files_info
           ELSE /\ passing_files_info' = r.info
                /\ pc' = "parse_failing"
                /\ UNCHANGED panicked
    /\ UNCHANGED <<passing_files, failing_files, failing_files_info,
                   statement_info_list, np, nf, folded, output, arg, ret>>

\* main.rs 44-47
ParseFailing ==
    /\ pc = "parse_failing"
    /\ LET r == ParseAll(failing_files)
       IN  IF r.panic # "none"
           THEN Abort(r.panic) /\ UNCHANGED failing_files_info
           ELSE /\ failing_files_info' = r.info
                /\ pc' = "build"
                /\ UNCHANGED panicked
    /\ UNCHANGED <<passing_files, failing_files, passing_files_info,
                   statement_info_list, np, nf, folded, output, arg, ret>>

\* BuildTable with total_failed taken from the passing directory
BuildTableWrongTotal ==
    /\ pc = "build"
    /\ IF passing_files_info = <<>>
       THEN Abort("index out of bounds") /\ UNCHANGED statement_info_list
       ELSE /\ statement_info_list' =
                   BuildLoop(passing_files_info[1], Len(passing_files), <<>>)
            /\ pc' = "fold"
            /\ UNCHANGED panicked
    /\ UNCHANGED <<passing_files, failing_files, passing_files_info,
                   failing_files_info, np, nf, folded, output, arg, ret>>

\* main.rs 49-61: passing_files_info[0] panics on an empty directory
BuildTable ==
    /\ pc = "build"
    /\ IF passing_files_info = <<>>
       THEN Abort("index out of bounds") /\ UNCHANGED statement_info_list
       ELSE /\ statement_info_list' =
                   BuildLoop(passing_files_info[1], Len(failing_files), <<>>)
            /\ pc' = "fold"
            /\ UNCHANGED panicked
    /\ UNCHANGED <<passing_files, failing_files, passing_files_info,
                   failing_files_info, np, nf, folded, output, arg, ret>>

\* main.rs 62-64, one iteration
FoldPassing ==
    /\ pc = "fold"
    /\ np < Len(passing_files_info)
    /\ LET r == add_test_to_statements(statement_info_list,
                                       passing_files_info[np + 1], TRUE)
       IN  /\ statement_info_list' = r.statements
           /\ IF r.panic # "none"
              THEN Abort(r.panic) /\ UNCHANGED np
              ELSE np' = np + 1 /\ UNCHANGED <<pc, panicked>>
    /\ UNCHANGED <<passing_files, failing_files, passing_files_info,
                   failing_files_info, nf, folded, output, arg, ret>>

\* main.rs 65-67, one iteration
FoldFailing ==
    /\ pc = "fold"
    /\ np = Len(passing_files_info)
    /\ nf < Len(failing_files_info)
    /\ LET r == add_test_to_statements(statement_info_list,
                                       failing_files_info[nf + 1], FALSE)
       IN  /\ statement_info_list' = r.statements
           /\ IF r.panic # "none"
              THEN Abort(r.panic) /\ UNCHANGED nf
              ELSE nf' = nf + 1 /\ UNCHANGED <<pc, panicked>>
    /\ UNCHANGED <<passing_files, failing_files, passing_files_info,
                   failing_files_info, np, folded, output, arg, ret>>

\* main.rs 68-70
Score ==
    /\ pc = "fold"
    /\ np = Len(passing_files_info)
    /\ nf = Len(failing_files_info)
    /\ statement_info_list' =
           [i \in 1..Len(statement_info_list) |->
               calculate_suspiciousness(statement_info_list[i])]
    /\ pc' = "sort"
    /\ UNCHANGED <<passing_files, failing_files, passing_files_info,
                   failing_files_info, np, nf, folded, output, panicked, arg, ret>>

\* main.rs 72-79
Sort ==
    /\ pc = "sort"
    /\ LET r == sort_by(statement_info_list)
       IN  /\ statement_info_list' = r.list
           /\ IF r.panic # "none"
              THEN Abort(r.panic)
              ELSE pc' = "write" /\ UNCHANGED panicked
    /\ UNCHANGED <<passing_files, failing_files, passing_files_info,
                   failing_files_info, np, nf, folded, output, arg, ret>>

\* main.rs 80-84: every statement, in order, is serialized into the csv
\* writer, which is then flushed to stdout.  A row is kept as the entry it
\* renders.
Write ==
    /\ pc = "write"
    /\ output' = statement_info_list
    /\ pc' = "done"
    /\ UNCHANGED <<passing_files, failing_files, passing_files_info,
                   failing_files_info, statement_info_list, np, nf, folded,
                   panicked, arg, ret>>

Next ==
    \/ ParsePassing
    \/ ParseFailing
    \/ BuildTable
    \/ FoldPassing
    \/ FoldFailing
    \/ Score
    \/ Sort
    \/ Write

Spec == Init /\ [][Next]_vars

-----------------------------------------------------------------------------
(* The functions of the library, each applied on its own *)

\* no run of main is under way
NoRun ==
    /\ passing_files = <<>>
    /\ failing_files = <<>>
    /\ passing_files_info = <<>>
    /\ failing_files_info = <<>>
    /\ statement_info_list = <<>>
    /\ np = 0
    /\ nf = 0
    /\ folded = <<>>
    /\ output = <<>>
    /\ panicked = "none"

\* parse_gcov_line -----------------------------------------------------------

LineMarkers == {<<"-">>, <<" ", "-", " ">>, NotCoveredMarker, <<" ", "2">>}

LineNumberFields ==
    {<<"0">>, <<" ", "7">>, <<"1", "2", " ">>, <<"+", "3">>, <<"x">>, <<"-", "1">>}

LineTexts == SeqsUpTo({" ", ":", "a"}, MaxTextLen)

\* lines of one, two and three or more fields
LineInputs ==
    LineMarkers
    \cup {m \o <<":">> \o n : m \in LineMarkers, n \in LineNumberFields}
    \cup {m \o <<":">> \o n \o <<":">> \o t :
              m \in LineMarkers, n \in LineNumberFields, t \in LineTexts}

InitLine ==
    /\ NoRun
    /\ arg \in LineInputs
    /\ ret = <<>>
    /\ pc = "line"

ParseLine ==
    /\ pc = "line"
    /\ ret' = parse_gcov_line(arg)
    /\ pc' = "line_parsed"
    /\ UNCHANGED <<mainVars, arg>>

SpecLine == InitLine /\ [][ParseLine]_vars

\* parse_gcov_file -----------------------------------------------------------

\* the header, a blank line, an executed and an unexecuted line, a line
\* without code, an executed line numbered 0, a line whose number is no
\* number, and a line of blanks only
SampleLines ==
    {HeaderLine,
     <<>>,
     <<" ", "2", ":", " ", "1", ":", " ", "a">>,
     <<"#", "#", "#", "#", "#", ":", "2", ":", "b", ":", "c">>,
     <<" ", "-", ":", "3", ":", "}">>,
     <<"1", ":", "0", ":", "z">>,
     <<"1", ":", "x", ":", "s">>,
     <<" ">>}

InitFile ==
    /\ NoRun
    /\ arg \in SeqsUpTo(SampleLines, MaxFileLines)
    /\ ret = <<>>
    /\ pc = "file"

ParseFile ==
    /\ pc = "file"
    /\ ret' = parse_gcov_file(arg)
    /\ pc' = "file_parsed"
    /\ UNCHANGED <<mainVars, arg>>

SpecFile == InitFile /\ [][ParseFile]_vars

\* calculate_suspiciousness --------------------------------------------------

\* the counts of test_dstar_calculation_from_hw
HwFailed == 616
HwTotalFailed == 617

\* <<passed_tests, failed_tests, total_failed>>
ScoreCounts ==
    ((0..MaxCount) \X (0..MaxCount) \X (0..MaxCount))
    \cup {<<0, HwFailed, HwTotalFailed>>}

\* the entry that new and c[1] add_passing_coverage and c[2]
\* add_failing_coverage calls leave
Counted(line_number, c) ==
    [new(line_number, <<"t">>, c[3]) EXCEPT !.passed_tests = c[1],
                                            !.failed_tests = c[2]]

InitScore ==
    /\ NoRun
    /\ arg \in {Counted(1, c) : c \in ScoreCounts}
    /\ ret = <<>>
    /\ pc = "score"

ScoreOne ==
    /\ pc = "score"
    /\ ret' = calculate_suspiciousness(arg)
    /\ pc' = "score_done"
    /\ UNCHANGED <<mainVars, arg>>

SpecScore == InitScore /\ [][ScoreOne]_vars

\* the ranking step ----------------------------------------------------------

\* counts that score NaN, 0, 0.25, 1 and +infinity
RankCounts == {<<0, 0, 0>>, <<1, 0, 1>>, <<3, 1, 2>>, <<1, 1, 1>>, <<0, 1, 1>>}

RankEntries ==
    {calculate_suspiciousness(Counted(l, c)) : l \in 1..MaxTable, c \in RankCounts}

InitRank ==
    /\ NoRun
    /\ arg \in SeqsUpTo(RankEntries, MaxTable)
    /\ ret = <<>>
    /\ pc = "rank"

Rank ==
    /\ pc = "rank"
    /\ ret' = sort_by(arg)
    /\ pc' = "rank_done"
    /\ UNCHANGED <<mainVars, arg>>

SpecRank == InitRank /\ [][Rank]_vars

\* folding in any order ------------------------------------------------------

\* the reports of a run, each tagged passing or failing
Reports ==
    ({"passing"} \X (1..Len(passing_files_info)))
    \cup ({"failing"} \X (1..Len(failing_files_info)))

\* a table and aligned reports, as main has them when it starts to fold
InitAnyOrder ==
    /\ \E n \in 1..MaxLines :
          /\ passing_files \in SeqsUpTo(GoodReports(n), MaxReports) \ {<<>>}
          /\ failing_files \in
                 SeqsUpTo(GoodReports(n), MaxReports - Len(passing_files))
    /\ passing_files_info = ParseAll(passing_files).info
    /\ failing_files_info = ParseAll(failing_files).info
    /\ statement_info_list =
           BuildLoop(passing_files_info[1], Len(failing_files), <<>>)
    /\ np = 0
    /\ nf = 0
    /\ folded = <<>>
    /\ output = <<>>
    /\ pc = "fold_any"
    /\ panicked = "none"
    /\ arg = <<>>
    /\ ret = <<>>

\* one report not yet folded is folded
FoldAny ==
    /\ pc = "fold_any"
    /\ \E r \in Reports \ Range(folded) :
          /\ statement_info_list' =
                 add_test_to_statements(
                     statement_info_list,
                     IF r[1] = "passing" THEN passing_files_info[r[2]]
                                         ELSE failing_files_info[r[2]],
                     r[1] = "passing").statements
          /\ folded' = Append(folded, r)
    /\ UNCHANGED <<passing_files, failing_files, passing_files_info,
                   failing_files_info, np, nf, output, pc, panicked, arg, ret>>

SpecAnyOrder == InitAnyOrder /\ [][FoldAny]_vars

-----------------------------------------------------------------------------
(* What the properties are stated with.  Fields of a raw line are found by  *)
(* the positions of its colons, not by splitting it.                        *)

ColonsOf(line) == {k \in 1..Len(line) : line[k] = ":"}

FirstColon(line) ==
    LET colons == ColonsOf(line)
    IN  CHOOSE k \in colons : \A j \in colons : k <= j

SecondColon(line) ==
    LET later == ColonsOf(line) \ {FirstColon(line)}
    IN  CHOOSE k \in later : \A j \in later : k <= j

MarkerFieldOf(line) == SubSeq(line, 1, FirstColon(line) - 1)

NumberFieldOf(line) ==
    LET first == FirstColon(line)
        later == {k \in ColonsOf(line) : k > first}
    IN  SubSeq(line, first + 1, (CHOOSE k \in later : \A j \in later : k <= j) - 1)

TextOf(line) == SubSeq(line, SecondColon(line) + 1, Len(line))

InkOf(s) == {k \in 1..Len(s) : ~IsWhitespace(s[k])}

Lowest(S) == CHOOSE k \in S : \A j \in S : k <= j

Highest(S) == CHOOSE k \in S : \A j \in S : k >= j

WithoutLeadingWhitespace(s) ==
    LET ink == InkOf(s)
    IN  IF ink = {} THEN <<>> ELSE SubSeq(s, Lowest(ink), Len(s))

Unpadded(s) ==
    LET ink == InkOf(s)
    IN  IF ink = {} THEN <<>> ELSE SubSeq(s, Lowest(ink), Highest(ink))

IsNumeral(s) == s # <<>> /\ \A k \in 1..Len(s) : IsDigit(s[k])

IsZeroNumeral(s) == IsNumeral(s) /\ \A k \in 1..Len(s) : s[k] = "0"

\* <marker>:<line_number>:<text>
IsCoverageLine(line) ==
    /\ Cardinality(ColonsOf(line)) >= 2
    /\ IsNumeral(Unpadded(NumberFieldOf(line)))

Occurrences(s, e) == Cardinality({k \in 1..Len(s) : s[k] = e})

IsPermutation(s, t) ==
    /\ Len(s) = Len(t)
    /\ \A e \in Range(s) \cup Range(t) : Occurrences(s, e) = Occurrences(t, e)

\* a may stand right before b in a ranking
RankedBefore(a, b) ==
    \/ F32Less(b.suspiciousness, a.suspiciousness)
    \/ /\ ~F32Less(a.suspiciousness, b.suspiciousness)
       /\ ~F32Less(b.suspiciousness, a.suspiciousness)
       /\ a.line_number <= b.line_number

IsRanked(list) ==
    \A k \in 1..(Len(list) - 1) : RankedBefore(list[k], list[k + 1])

NoNaN(list) == \A k \in 1..Len(list) : list[k].suspiciousness.kind # "nan"

\* s is an f32 nearest to n / d, for n >= 0 and d > 0
NearestF32(s, n, d) ==
    /\ s.kind = "fin"
    /\ s.sign = 1
    /\ IF n = 0 THEN s.m = 0
       ELSE /\ Pow2(23) <= s.m
            /\ s.m < Pow2(24)
            /\ LET err == s.m * d - n * Pow2(s.k)
               IN  2 * (IF err < 0 THEN -err ELSE err) <= d

\* s is the f32 that is exactly n / d
ExactF32(s, n, d) ==
    /\ s.kind = "fin"
    /\ s.sign = 1
    /\ s.m * d = n * Pow2(s.k)

-----------------------------------------------------------------------------
(* C1: ranking a table without NaN gives a permutation of it in which      *)
(* every entry is followed by one of lower suspiciousness, or of equal     *)
(* suspiciousness (both infinite included) and no smaller line number.     *)

C1_RankingOrder ==
    (pc = "rank_done" /\ NoNaN(arg)) =>
        /\ ret.panic = "none"
        /\ IsPermutation(ret.list, arg)
        /\ IsRanked(ret.list)

\* three entries, two of them infinite and given with the larger line
\* number first, come out reordered
C1_Witness ==
    /\ pc = "rank_done"
    /\ NoNaN(arg)
    /\ Len(arg) = 3
    /\ \E i, j \in 1..3 :
          /\ i < j
          /\ arg[i].suspiciousness.kind = "inf"
          /\ arg[j].suspiciousness.kind = "inf"
          /\ arg[i].line_number > arg[j].line_number
    /\ \E k \in 1..3 : arg[k].suspiciousness.kind = "fin"
    /\ ret.list # arg

-----------------------------------------------------------------------------
(* C2: while and after the reports are folded, the passed_tests of the     *)
(* entry at each position is the number of passing reports folded so far   *)
(* (the baseline included) whose record at that position is Covered, and   *)
(* its failed_tests the number of such failing reports; so a fold changes  *)
(* one counter only, and only at Covered positions.                        *)

CoveringAmong(reports, n, i) ==
    Cardinality({r \in 1..n : reports[r][i].coverage = Covered})

C2_FoldCounts ==
    pc \in {"fold", "sort"} =>
        \A i \in 1..Len(statement_info_list) :
            /\ statement_info_list[i].passed_tests =
                   CoveringAmong(passing_files_info, np, i)
            /\ statement_info_list[i].failed_tests =
                   CoveringAmong(failing_files_info, nf, i)

\* two passing reports and a failing one are folded; a line has been
\* covered by both passing reports only, another by one of each kind
C2_Witness ==
    /\ pc = "sort"
    /\ np = 2
    /\ nf = 1
    /\ Len(statement_info_list) = 2
    /\ statement_info_list[1].passed_tests = 2
    /\ statement_info_list[1].failed_tests = 0
    /\ statement_info_list[2].passed_tests = 1
    /\ statement_info_list[2].failed_tests = 1

-----------------------------------------------------------------------------
(* C3: in every state of a run every entry has passed_tests at most the    *)
(* number of passing reports and failed_tests at most total_failed, the    *)
(* number of failing reports, so the denominator of the score is never     *)
(* negative.                                                               *)

C3_CountsBounded ==
    \A e \in Range(statement_info_list) \cup Range(output) :
        /\ e.total_failed = Len(failing_files)
        /\ e.passed_tests <= Len(passing_files)
        /\ e.failed_tests <= e.total_failed
        /\ e.passed_tests + e.total_failed - e.failed_tests >= 0

\* both bounds are met at once: a line covered by every report
C3_Witness ==
    /\ pc = "sort"
    /\ \E k \in 1..Len(statement_info_list) :
          /\ statement_info_list[k].failed_tests = 2
          /\ statement_info_list[k].total_failed = 2
          /\ statement_info_list[k].passed_tests = Len(passing_files)

-----------------------------------------------------------------------------
(* C4: no entry is ever scored NaN, and the sort never fails on an         *)
(* undefined comparison.                                                   *)

C4_NeverNaN ==
    /\ NoNaN(statement_info_list)
    /\ panicked # "unwrap on None"

-----------------------------------------------------------------------------
(* C5: calculate_suspiciousness changes the score only, and sets it to     *)
(* failed_tests^2 / (passed_tests + total_failed - failed_tests) in f32    *)
(* when the denominator is positive (0.25 for 3, 1, 2; 379456 for 0, 616,  *)
(* 617; 0 when failed_tests is 0), and to +infinity when the denominator   *)
(* is zero and failed_tests is at least 1.                                 *)

-----------------------------------------------------------------------------
(* C6: folding a report whose length differs from the number of entries    *)
(* aborts the run, and no counter of any entry has changed when it does.   *)

NextReport ==
    IF np < Len(passing_files_info) THEN passing_files_info[np + 1]
    ELSE failing_files_info[nf + 1]

FoldPending ==
    /\ pc = "fold"
    /\ (np < Len(passing_files_info) \/ nf < Len(failing_files_info))

C6_MismatchAborts ==
    [][(FoldPending /\ Len(NextReport) # Len(statement_info_list)) =>
           /\ pc' = "panicked"
           /\ panicked' = "assert_eq"
           /\ statement_info_list' = statement_info_list
           /\ output' = <<>>]_vars

\* the run was aborted by the fold of a failing report, after folds that
\* had counted
C6_Witness ==
    /\ pc = "panicked"
    /\ panicked = "assert_eq"
    /\ np = Len(passing_files_info)
    /\ Len(failing_files_info[nf + 1]) > Len(statement_info_list)
    /\ \E k \in 1..Len(statement_info_list) :
          statement_info_list[k].passed_tests > 0

-----------------------------------------------------------------------------
(* C7: a run whose input has no passing report, a line whose line-number   *)
(* field is no number, or a report of another length than the baseline     *)
(* never writes a row and never completes; an aborted run has written no   *)
(* row; a row is written only once every report is parsed and folded and   *)
(* every entry is scored and the list sorted; and a run that is neither   *)
(* done nor aborted has a next step (its loop counters never overrun).     *)

HasBadLine(file) ==
    \E k \in 1..Len(file) :
        /\ file[k] # <<>>
        /\ Cardinality(ColonsOf(file[k])) >= 2
        /\ ~IsNumeral(Unpadded(NumberFieldOf(file[k])))

ExecutableLines(file) ==
    {k \in 1..Len(file) :
        /\ file[k] # <<>>
        /\ Cardinality(ColonsOf(file[k])) >= 2
        /\ LET number == Unpadded(NumberFieldOf(file[k]))
           IN  IsNumeral(number) /\ ~IsZeroNumeral(number)
        /\ Unpadded(MarkerFieldOf(file[k])) # <<"-">>}

FatalInput ==
    LET files == passing_files \o failing_files
        count == [r \in 1..Len(files) |-> Cardinality(ExecutableLines(files[r]))]
    IN  \/ passing_files = <<>>
        \/ \E r \in 1..Len(files) : HasBadLine(files[r])
        \/ \E r \in 1..Len(files) : count[r] # count[1]

C7_NoPartialOutput ==
    /\ (output # <<>> \/ pc \in {"write", "done"}) => ~FatalInput
    /\ pc = "panicked" => output = <<>>
    /\ output # <<>> =>
           /\ pc = "done"
           /\ Len(passing_files_info) = Len(passing_files)
           /\ Len(failing_files_info) = Len(failing_files)
           /\ np = Len(passing_files)
           /\ nf = Len(failing_files)
           /\ \A k \in 1..Len(statement_info_list) :
                  LET e == statement_info_list[k]
                  IN  e.suspiciousness =
                          F32Div(e.failed_tests * e.failed_tests,
                                 e.passed_tests + e.total_failed - e.failed_tests)
           /\ IsRanked(statement_info_list)
           /\ output = statement_info_list
    /\ pc \in {"parse_passing", "parse_failing", "build", "fold", "sort",
               "write", "done", "panicked"}
    /\ pc = "fold" =>
           (np <= Len(passing_files_info) /\ nf <= Len(failing_files_info))

\* the last failing report is of another length: the run is aborted after
\* every other report was folded, and nothing was written
C7_Witness ==
    /\ pc = "panicked"
    /\ FatalInput
    /\ np = Len(passing_files)
    /\ nf = Len(failing_files) - 1
    /\ nf >= 1
    /\ output = <<>>

-----------------------------------------------------------------------------
(* C8: the sequence parse_gcov_file returns has no NoExecutableCode record *)
(* and no record of line 0, and is the records of the other non-empty      *)
(* lines, one each, in the order of the lines.                             *)

KeptLines(file) ==
    {k \in 1..Len(file) :
        /\ file[k] # <<>>
        /\ parse_gcov_line(file[k]).line_info.coverage # NoExecutableCode
        /\ parse_gcov_line(file[k]).line_info.line_number # 0}

C8_FileFilter ==
    (pc = "file_parsed" /\ ret.panic = "none") =>
        /\ \A k \in 1..Len(ret.lines) :
               /\ ret.lines[k].coverage # NoExecutableCode
               /\ ret.lines[k].line_number # 0
        /\ Len(ret.lines) = Cardinality(KeptLines(arg))
        /\ \A i \in KeptLines(arg) :
               ret.lines[Cardinality({j \in KeptLines(arg) : j <= i})]
                   = parse_gcov_line(arg[i]).line_info

\* a file of the header, an executed line numbered 0 and an unexecuted
\* line yields the record of the last alone
C8_Witness ==
    /\ pc = "file_parsed"
    /\ ret.panic = "none"
    /\ Len(arg) = 3
    /\ HeaderLine \in Range(arg)
    /\ <<"1", ":", "0", ":", "z">> \in Range(arg)
    /\ Len(ret.lines) = 1
    /\ ret.lines[1].coverage = NotCovered

-----------------------------------------------------------------------------
(* C9: for a line <marker>:<line_number>:<text>, whatever the number of    *)
(* colons in <text>, parse_gcov_line returns as statement <text> without   *)
(* its leading whitespace, every later colon and character in place.       *)

C9_StatementKept ==
    (pc = "line_parsed" /\ IsCoverageLine(arg)) =>
        /\ ret.panic = "none"
        /\ ret.line_info.statement = WithoutLeadingWhitespace(TextOf(arg))

\* a text that starts with a blank and holds two colons
C9_Witness ==
    /\ pc = "line_parsed"
    /\ IsCoverageLine(arg)
    /\ Cardinality(ColonsOf(arg)) = 4
    /\ TextOf(arg)[1] = " "
    /\ ret.line_info.statement = Tail(TextOf(arg))
    /\ Len(ret.line_info.statement) = 3

-----------------------------------------------------------------------------
(* C10: folding the reports of a run in any order leaves the counters that *)
(* folding every passing report and then every failing report leaves.      *)

RECURSIVE FoldInOrder(_, _, _)
FoldInOrder(list, reports, is_passing) ==
    IF reports = <<>> THEN list
    ELSE FoldInOrder(add_test_to_statements(list, Head(reports), is_passing).statements,
                     Tail(reports), is_passing)

MainOrderResult ==
    FoldInOrder(
        FoldInOrder(BuildLoop(passing_files_info[1], Len(failing_files), <<>>),
                    passing_files_info, TRUE),
        failing_files_info, FALSE)

C10_OrderIrrelevant ==
    (pc = "fold_any" /\ Len(folded) = Cardinality(Reports)) =>
        statement_info_list = MainOrderResult

\* three reports folded, a failing one first and a passing one last
C10_Witness ==
    /\ pc = "fold_any"
    /\ Len(folded) = 3
    /\ Cardinality(Reports) = 3
    /\ folded[1][1] = "failing"
    /\ folded[3][1] = "passing"
    /\ \E k \in 1..Len(statement_info_list) :
          /\ statement_info_list[k].passed_tests = 1
          /\ statement_info_list[k].failed_tests = 1

=============================================================================
